---- MODULE Spec2Model ----
(***************************************************************************)
(* A model of pydps150: the DPS150 frame codec, the resynchronising frame  *)
(* scanner, the payload decoder (src/dps150/protocol.py) and the threaded   *)
(* serial session (src/dps150/device.py).                                   *)
(*                                                                          *)
(* Bytes are naturals 0..255.  Python's 0-based buffers are TLA+ sequences; *)
(* B(buffer, i) reads the byte at Python index i.                           *)
(***************************************************************************)
EXTENDS Integers, Sequences, FiniteSets, TLC

\* ------------------------------------------------------------------------
\* protocol.py: constants
\* ------------------------------------------------------------------------
HEADER_INPUT == 240
HEADER_OUTPUT == 241
CMD_GET == 161
CMD_BAUD == 176
CMD_SET == 177
CMD_SESSION == 193
METERING_ENABLE == 216
OUTPUT_ENABLE == 219
MODEL_NAME == 222
HARDWARE_VERSION == 223
FIRMWARE_VERSION == 224
ALL == 255

PROTECTION_STATES == <<"", "OVP", "OCP", "OPP", "OTP", "LVP", "REP">>

\* ------------------------------------------------------------------------
\* Bounds of the model and the byte values the inputs are drawn from
\* ------------------------------------------------------------------------
\* Total number of free bytes (prefix + payload + trailing) of a scanner input.
MaxFree == 6
\* Longest payload handed to parse_payload.
MaxParseLen == 120
\* Pieces (frames and garbage bytes) of the byte stream the device sends in the
\* reader specification.
MaxItems == 3
\* Longest payload of the encoder inputs that are enumerated byte by byte.
MaxEncLen == 2

\* API calls the client threads make, all together, in the session specification.
MaxCalls == 3

\* Byte values of the free bytes: zero, one, and a header value (so that
\* header-valued bytes occur inside garbage, payloads, lengths and checksums).
Alphabet == {0, 1, HEADER_INPUT}

RECURSIVE SeqsUpTo(_, _)
SeqsUpTo(S, n) ==
    IF n = 0 THEN {<<>>}
    ELSE LET shorter == SeqsUpTo(S, n - 1)
         IN shorter \cup {Append(s, x) : s \in {q \in shorter : Len(q) = n - 1}, x \in S}

\* ------------------------------------------------------------------------
\* protocol.py: codec
\* ------------------------------------------------------------------------
Byte == 0..255

B(buffer, i) == buffer[i + 1]

\* buffer[a:b] of Python, for 0 <= a <= b <= len(buffer)
Slice(buffer, a, b) == SubSeq(buffer, a + 1, b)

\* sum(payload), summed by halves so that a 255-byte payload nests 8 deep
RECURSIVE SumSeq(_)
SumSeq(s) ==
    IF Len(s) = 0 THEN 0
    ELSE IF Len(s) = 1 THEN s[1]
    ELSE LET half == Len(s) \div 2
         IN SumSeq(SubSeq(s, 1, half)) + SumSeq(SubSeq(s, half + 1, Len(s)))

\* mutant: a checksum that leaves out the length byte
checksumNoLen(type_id, payload) == (type_id + SumSeq(payload)) % 256

checksum(type_id, payload) == (type_id + Len(payload) + SumSeq(payload)) % 256

\* bytes([...]) raises ValueError for an element outside range(0, 256)
ValueError == "ValueError"

encode_frame(header, cmd, type_id, payload) ==
    LET c4 == Len(payload)
        c6 == checksum(type_id, payload)
    IN IF {header, cmd, type_id, c4} \subseteq Byte
       THEN <<header, cmd, type_id, c4>> \o payload \o <<c6>>
       ELSE ValueError

encode_set_byte(type_id, value) == encode_frame(HEADER_OUTPUT, CMD_SET, type_id, <<value % 256>>)

encode_get(type_id) == encode_frame(HEADER_OUTPUT, CMD_GET, type_id, <<0>>)

encode_session(open_session) ==
    encode_frame(HEADER_OUTPUT, CMD_SESSION, 0, <<IF open_session THEN 1 ELSE 0>>)

\* ------------------------------------------------------------------------
\* protocol.py: try_extract_frame
\* ------------------------------------------------------------------------
Frame(header, cmd, type_id, payload) ==
    [header |-> header, cmd |-> cmd, type_id |-> type_id, payload |-> payload]

None == [found |-> FALSE]
Found(frame, consumed) == [found |-> TRUE, frame |-> frame, consumed |-> consumed]

IsHeader(b) == b \in {HEADER_INPUT, HEADER_OUTPUT}

\* `if n < 6: return None`
TooShort(n) == n < 6

\* mutant: the loop stops one start offset early
LastStartEarly(n) == n - 7

\* `for i in range(0, n - 5)`: the last start offset tried is n - 6
LastStart(n) == n - 6

\* `if end >= n: return None`, with end = i + 4 + c4
NotEnoughYet(i, c4, n) == i + 4 + c4 >= n

\* mutant: a frame is reported with nothing consumed
ConsumedNothing(i, c4) == 0

\* mutant: consumed counts the frame and forgets the bytes skipped before it
ConsumedFrameOnly(i, c4) == 5 + c4

\* `consumed = i + 5 + c4`
Consumed(i, c4) == i + 5 + c4

\* mutant: a checksum mismatch skips the whole candidate
NextStartPast(i, c4) == i + 5 + c4

\* what a checksum mismatch at offset i makes the loop try next (`continue`)
NextStart(i, c4) == i + 1

RECURSIVE ScanFrom(_, _)

\* mutant: an incomplete candidate is skipped and the scan goes on behind it
WhenNotEnoughSkip(buffer, i) == ScanFrom(buffer, i + 1)

\* `if end >= n: return None`: an incomplete candidate ends the scan
WhenNotEnough(buffer, i) == None

ScanFrom(buffer, i) ==
    LET n == Len(buffer) IN
    IF i > LastStart(n) THEN None
    ELSE IF ~IsHeader(B(buffer, i)) THEN ScanFrom(buffer, i + 1)
    ELSE LET cmd == B(buffer, i + 1)
             type_id == B(buffer, i + 2)
             c4 == B(buffer, i + 3)
         IN IF NotEnoughYet(i, c4, n) THEN WhenNotEnough(buffer, i)
            ELSE LET payload == Slice(buffer, i + 4, i + 4 + c4)
                     c6 == B(buffer, i + 4 + c4)
                 IN IF checksum(type_id, payload) # c6
                    THEN ScanFrom(buffer, NextStart(i, c4))
                    ELSE Found(Frame(B(buffer, i), cmd, type_id, payload), Consumed(i, c4))

try_extract_frame(buffer) ==
    IF TooShort(Len(buffer)) THEN None ELSE ScanFrom(buffer, 0)

\* mutant: the frame found stays in the buffer
DelNothing(buffer, consumed) == buffer

\* `del buffer[:consumed]`
DelPrefix(buffer, consumed) ==
    IF consumed >= Len(buffer) THEN <<>> ELSE SubSeq(buffer, consumed + 1, Len(buffer))

\* ------------------------------------------------------------------------
\* protocol.py: parse_payload
\* A dict is a function from its keys; a float is its 32 IEEE-754 bits read
\* little-endian; a call either returns a dict or raises.
\* ------------------------------------------------------------------------
Ok(d) == [raised |-> FALSE, out |-> d]
Raised == [raised |-> TRUE]

\* mutant: the record starts with a key
RawDict == [k \in {"raw"} |-> 0]

EmptyDict == [k \in {} |-> 0]

\* struct.unpack_from("<f", payload, offset) needs 4 bytes from offset
CanF32(payload, offset) == offset + 4 <= Len(payload)
f32(payload, offset) ==
    B(payload, offset) + 256 * B(payload, offset + 1)
        + 65536 * B(payload, offset + 2) + 16777216 * B(payload, offset + 3)

\* payload[k] needs k < len(payload)
CanIndex(payload, k) == k < Len(payload)

\* payload.decode(errors="replace"), for payloads without UTF-8 continuation
\* bytes (0x80..0xBF): an ASCII byte is its own code point, any other byte is
\* an invalid sequence of its own and becomes U+FFFD
Decode(payload) == [k \in 1..Len(payload) |-> IF payload[k] < 128 THEN payload[k] ELSE 65533]

ProtectionLabel(idx) ==
    IF idx < Len(PROTECTION_STATES) THEN PROTECTION_STATES[idx + 1] ELSE ToString(idx)

ModeLabel(b) == IF b = 0 THEN "CC" ELSE "CV"

\* the 24 floats of the ALL block, at offsets 0, 4, ..., 92
CoreNames ==
    << "inputVoltage", "setVoltage", "setCurrent", "outputVoltage", "outputCurrent",
       "outputPower", "temperature",
       "group1setVoltage", "group1setCurrent", "group2setVoltage", "group2setCurrent",
       "group3setVoltage", "group3setCurrent", "group4setVoltage", "group4setCurrent",
       "group5setVoltage", "group5setCurrent", "group6setVoltage", "group6setCurrent",
       "overVoltageProtection", "overCurrentProtection", "overPowerProtection",
       "overTemperatureProtection", "lowVoltageProtection" >>

CoreKeys == {CoreNames[k] : k \in 1..Len(CoreNames)}
CoreOffset(name) == 4 * ((CHOOSE k \in 1..Len(CoreNames) : CoreNames[k] = name) - 1)

FlagKeys == {"brightness", "volume", "meteringClosed"}
StateKeys == {"outputCapacity", "outputEnergy", "outputClosed", "protectionState", "mode"}
LimitKeys == {"upperLimitVoltage", "upperLimitCurrent"}

\* one float at offset 0 under the given key (types 192, 196, 217, 218, 226, 227)
Scalar(key, payload) ==
    IF CanF32(payload, 0) THEN Ok(key :> f32(payload, 0)) ELSE Raised

\* the `elif type_id == 255` branch
ParseAll(payload) ==
    LET n == Len(payload)
        core == [name \in CoreKeys |-> f32(payload, CoreOffset(name))]
        flags == IF n > 98
                 THEN ("brightness" :> B(payload, 96)) @@ ("volume" :> B(payload, 97))
                          @@ ("meteringClosed" :> (B(payload, 98) = 0))
                 ELSE EmptyDict
        state == IF n >= 109
                 THEN ("outputCapacity" :> f32(payload, 99)) @@ ("outputEnergy" :> f32(payload, 103))
                          @@ ("outputClosed" :> (B(payload, 107) = 1))
                          @@ ("protectionState" :> ProtectionLabel(B(payload, 108)))
                          @@ ("mode" :> ModeLabel(B(payload, 109)))
                 ELSE EmptyDict
        limits == IF n >= 119
                  THEN ("upperLimitVoltage" :> f32(payload, 111))
                           @@ ("upperLimitCurrent" :> f32(payload, 115))
                  ELSE EmptyDict
    IN IF n < 95 THEN Ok("rawAll" :> payload)
       ELSE IF ~CanF32(payload, 92) THEN Raised                  \* f32(92) of a 95-byte payload
       ELSE IF n >= 109 /\ ~CanIndex(payload, 109) THEN Raised   \* payload[109] of a 109-byte payload
       ELSE IF n >= 119 /\ ~CanF32(payload, 115) THEN Raised
       ELSE Ok(limits @@ state @@ flags @@ core)

parse_payload(type_id, payload) ==
    CASE type_id = 192 -> Scalar("inputVoltage", payload)
      [] type_id = 195 ->
            IF CanF32(payload, 8)
            THEN Ok(("outputVoltage" :> f32(payload, 0)) @@ ("outputCurrent" :> f32(payload, 4))
                        @@ ("outputPower" :> f32(payload, 8)))
            ELSE Raised
      [] type_id = 196 -> Scalar("temperature", payload)
      [] type_id = 217 -> Scalar("outputCapacity", payload)
      [] type_id = 218 -> Scalar("outputEnergy", payload)
      [] type_id = 219 ->
            IF CanIndex(payload, 0) THEN Ok("outputClosed" :> (B(payload, 0) = 1)) ELSE Raised
      [] type_id = 220 ->
            IF CanIndex(payload, 0)
            THEN Ok("protectionState" :> ProtectionLabel(B(payload, 0))) ELSE Raised
      [] type_id = 221 ->
            IF CanIndex(payload, 0) THEN Ok("mode" :> ModeLabel(B(payload, 0))) ELSE Raised
      [] type_id = 222 -> Ok("modelName" :> Decode(payload))
      [] type_id = 223 -> Ok("hardwareVersion" :> Decode(payload))
      [] type_id = 224 -> Ok("firmwareVersion" :> Decode(payload))
      [] type_id = 226 -> Scalar("upperLimitVoltage", payload)
      [] type_id = 227 -> Scalar("upperLimitCurrent", payload)
      [] type_id = 255 -> ParseAll(payload)
      [] OTHER -> Ok(EmptyDict)

\* `if updates:` a dict is truthy when it has a key
NonEmpty(d) == DOMAIN d # {}

\* ------------------------------------------------------------------------
\* State
\* ------------------------------------------------------------------------
VARIABLES
    call,           \* scanner: the inputs the buffer was built from
    buffer,         \* scanner: the buffer handed to try_extract_frame
    res,            \* scanner: what try_extract_frame returned
    phase,          \* scanner: "input", "scanned", "consumed"
    p_in,           \* decoder: the (type_id, payload) handed to parse_payload
    p_out,          \* decoder: what parse_payload returned
    e_in,           \* encoder: the encoder called and its arguments
    e_out,          \* encoder: what the encoder returned or raised
    baudrate,       \* DPS150.baudrate
    ser,            \* DPS150._ser: 0 for None, else the index of a port in ports
    ports,          \* the serial.Serial objects made so far: ports[p] is its is_open
    stop_evt,       \* DPS150._stop_evt
    reader_thread,  \* DPS150._reader_thread: 0 for None, else an index in readers
    readers,        \* the reader threads started so far, each at a place of _reader_loop
    rx_buf,         \* DPS150._rx_buf
    lock,           \* DPS150._lock: 0 when free, else the client thread holding it
    client,         \* the client threads, each at a place of open(), close() or a command
    stream,         \* every byte the device sends in this run
    inbound,        \* the bytes of stream the transport has not handed out yet
    delivered       \* the update records the callback was called with, in order

scanVars == <<call, buffer, res, phase>>
parseVars == <<p_in, p_out>>
encVars == <<e_in, e_out>>
sessVars == <<baudrate, ser, ports, stop_evt, reader_thread, readers, rx_buf, lock,
              client, stream, inbound, delivered>>
vars == <<scanVars, parseVars, encVars, sessVars>>

\* the scanner and the decoder when a specification does not exercise them
ScanIdle == call = None /\ buffer = <<>> /\ res = None /\ phase = "idle"
Pending == [returned |-> FALSE]
Returned(r) == [returned |-> TRUE, result |-> r]
ParseIdle == p_in = None /\ p_out = Pending
EncodeIdle == e_in = None /\ e_out = Pending

\* ------------------------------------------------------------------------
\* device.py: the session object and its client threads
\* ------------------------------------------------------------------------
Clients == {1, 2}

\* `self._ser.read(1024)`
ReadMax == 1024

Min(a, b) == IF a < b THEN a ELSE b

IdleClient ==
    [pc |-> "idle", op |-> "none", k |-> 0, frame |-> <<>>, sent |-> <<>>,
     err |-> "none", started |-> 0, join |-> "none", calls |-> 0]

\* DPS150.__init__, for a configured baud rate and the bytes the device will send
Constructed(rate, bytes) ==
    /\ baudrate = rate
    /\ ser = 0
    /\ ports = <<>>
    /\ stop_evt = FALSE
    /\ reader_thread = 0
    /\ readers = <<>>
    /\ rx_buf = <<>>
    /\ lock = 0
    /\ client = [t \in Clients |-> IdleClient]
    /\ stream = bytes
    /\ inbound = bytes
    /\ delivered = <<>>

\* the is_open property
is_open == ser # 0 /\ ports[ser]

\* `idx = baud_table.index(self.baudrate) if self.baudrate in baud_table else len(baud_table) - 1`
baud_table == <<9600, 19200, 38400, 57600, 115200>>

\* mutant: a rate that is not in the table selects the first entry
BaudIndexFirst(rate) ==
    IF \E k \in 1..Len(baud_table) : baud_table[k] = rate
    THEN (CHOOSE k \in 1..Len(baud_table) : baud_table[k] = rate) - 1
    ELSE 0

BaudIndex(rate) ==
    IF \E k \in 1..Len(baud_table) : baud_table[k] = rate
    THEN (CHOOSE k \in 1..Len(baud_table) : baud_table[k] = rate) - 1
    ELSE Len(baud_table) - 1

\* _init_commands: the k-th frame it sends
InitFrame(k) ==
    CASE k = 1 -> encode_session(TRUE)
      [] k = 2 -> encode_frame(HEADER_OUTPUT, CMD_BAUD, 0, <<BaudIndex(baudrate) + 1>>)
      [] k = 3 -> encode_get(MODEL_NAME)
      [] k = 4 -> encode_get(HARDWARE_VERSION)
      [] k = 5 -> encode_get(FIRMWARE_VERSION)
      [] k = 6 -> encode_get(ALL)

InitCount == 6

\* the frames of the commands the client threads issue: get_all(), enable_output()
CmdFrames == {encode_get(ALL), encode_set_byte(OUTPUT_ENABLE, 1)}

Set(t, fields) == client' = [client EXCEPT ![t] = fields @@ client[t]]

\* the call of thread t ends: a return (err "ok" or "noop") or a propagated exception
Return(t, e) == Set(t, [pc |-> "idle", err |-> e, k |-> 0, frame |-> <<>>])

RECURSIVE SumCalls(_)
SumCalls(T) == IF T = {} THEN 0
               ELSE LET t == CHOOSE x \in T : TRUE IN client[t].calls + SumCalls(T \ {t})
CallsMade == SumCalls(Clients)
FirstClient == 1

\* a client thread calls open(), close() or a command
StartCall(t) ==
    /\ client[t].pc = "idle"
    /\ CallsMade < MaxCalls
    /\ t # FirstClient => client[FirstClient].calls > 0    \* the threads are alike
    /\ \E op \in {"open", "close", "cmd"} :
       \E f \in (IF op = "cmd" THEN CmdFrames ELSE {<<>>}) :
          Set(t, [pc |-> IF op = "open" THEN "o_check"
                         ELSE IF op = "close" THEN "c_check" ELSE "s_check",
                  op |-> op, k |-> 0, frame |-> f, sent |-> <<>>, err |-> "running",
                  started |-> 0, join |-> "none", calls |-> client[t].calls + 1])
    /\ UNCHANGED <<scanVars, parseVars, encVars, baudrate, ser, ports, stop_evt, reader_thread, readers, rx_buf, lock,
                   stream, inbound, delivered>>

\* mutant: open without its already-open check
OpenCheckNever(t) ==
    /\ client[t].pc = "o_check"
    /\ Set(t, [pc |-> "o_serial"])
    /\ UNCHANGED <<scanVars, parseVars, encVars, baudrate, ser, ports, stop_evt, reader_thread, readers, rx_buf, lock,
                   stream, inbound, delivered>>

\* open: `if self.is_open: return`
OpenCheck(t) ==
    /\ client[t].pc = "o_check"
    /\ IF is_open THEN Return(t, "noop") ELSE Set(t, [pc |-> "o_serial"])
    /\ UNCHANGED <<scanVars, parseVars, encVars, baudrate, ser, ports, stop_evt, reader_thread, readers, rx_buf, lock,
                   stream, inbound, delivered>>

\* open: `self._ser = serial.Serial(...)`, which opens the port or raises
OpenSerial(t) ==
    /\ client[t].pc = "o_serial"
    /\ \E opened \in BOOLEAN :
          IF opened
          THEN /\ ports' = Append(ports, TRUE)
               /\ ser' = Len(ports) + 1
               /\ Set(t, [pc |-> "o_clear"])
          ELSE /\ Return(t, "serial_error")
               /\ UNCHANGED <<ser, ports>>
    /\ UNCHANGED <<scanVars, parseVars, encVars, baudrate, stop_evt, reader_thread, readers, rx_buf, lock,
                   stream, inbound, delivered>>

\* mutant: open() also empties the receive buffer
OpenClearAll(t) ==
    /\ client[t].pc = "o_clear"
    /\ stop_evt' = FALSE
    /\ rx_buf' = <<>>
    /\ Set(t, [pc |-> "o_thread"])
    /\ UNCHANGED <<scanVars, parseVars, encVars, baudrate, ser, ports, reader_thread, readers, lock,
                   stream, inbound, delivered>>

\* open: `self._stop_evt.clear()`
OpenClear(t) ==
    /\ client[t].pc = "o_clear"
    /\ stop_evt' = FALSE
    /\ Set(t, [pc |-> "o_thread"])
    /\ UNCHANGED <<scanVars, parseVars, encVars, baudrate, ser, ports, reader_thread, readers, rx_buf, lock,
                   stream, inbound, delivered>>

NewReader == [pc |-> "start"]

\* open: `self._reader_thread = threading.Thread(...)`, `.start()`, then the
\* call of _init_commands, which begins with its first _send
OpenThread(t) ==
    /\ client[t].pc = "o_thread"
    /\ readers' = Append(readers, NewReader)
    /\ reader_thread' = Len(readers) + 1
    /\ Set(t, [pc |-> "s_check", k |-> 1, frame |-> InitFrame(1),
               started |-> Len(readers) + 1])
    /\ UNCHANGED <<scanVars, parseVars, encVars, baudrate, ser, ports, stop_evt, rx_buf, lock, stream, inbound, delivered>>

\* what follows a _send that returned, by the call it is part of
AfterSend(t) ==
    CASE client[t].op = "open" /\ client[t].k < InitCount ->
            Set(t, [pc |-> "s_check", k |-> client[t].k + 1, frame |-> InitFrame(client[t].k + 1)])
      [] client[t].op = "close" -> Set(t, [pc |-> "c_stop"])
      [] OTHER -> Return(t, "ok")

\* mutant: close() lets the exception of its _send propagate
SendRaisedPropagates(t, e) == Return(t, e)

\* what follows a _send that raised e: close() swallows it (`except Exception:
\* pass`), open() and the commands let it propagate
SendRaised(t, e) ==
    IF client[t].op = "close" THEN Set(t, [pc |-> "c_stop"]) ELSE Return(t, e)

\* mutant: _send without its not-open check
SendNotOpenNever == FALSE

\* _send: `if not self._ser: raise RuntimeError("Serial not open")`
SendNotOpen == ser = 0

SendCheck(t) ==
    /\ client[t].pc = "s_check"
    /\ IF SendNotOpen THEN SendRaised(t, "not_open") ELSE Set(t, [pc |-> "s_write"])
    /\ UNCHANGED <<scanVars, parseVars, encVars, baudrate, ser, ports, stop_evt, reader_thread, readers, rx_buf, lock,
                   stream, inbound, delivered>>

\* what `self._ser.<method>()` raises before it touches the transport
SerRaises ==
    IF ser = 0 THEN "attribute_error"          \* None has no such attribute
    ELSE IF ~ports[ser] THEN "port_not_open"   \* pyserial on a closed port
    ELSE "none"

\* mutant: _send takes no lock
LockFreeAlways == TRUE

\* `with self._lock:` is entered when no other thread holds the lock
LockFree == lock = 0

\* mutant: a write that fails inside open() closes the port and clears _ser
SendWriteRollsBack(t) ==
    /\ client[t].pc = "s_write"
    /\ LockFree
    /\ \E io_ok \in BOOLEAN :
          LET e == IF SerRaises # "none" THEN SerRaises
                   ELSE IF io_ok THEN "none" ELSE "io_error"
          IN IF e = "none"
             THEN /\ Set(t, [pc |-> "s_flush", sent |-> Append(client[t].sent, client[t].frame)])
                  /\ lock' = t
                  /\ UNCHANGED <<ser, ports>>
             ELSE /\ SendRaised(t, e)
                  /\ lock' = 0
                  /\ IF client[t].op = "open" /\ ser # 0
                     THEN ser' = 0 /\ ports' = [ports EXCEPT ![ser] = FALSE]
                     ELSE UNCHANGED <<ser, ports>>
    /\ UNCHANGED <<scanVars, parseVars, encVars, baudrate, stop_evt, reader_thread, readers, rx_buf,
                   stream, inbound, delivered>>

\* _send: `with self._lock:` entered and `self._ser.write(data)`; an exception
\* leaves the with block, which releases the lock
SendWrite(t) ==
    /\ client[t].pc = "s_write"
    /\ LockFree
    /\ \E io_ok \in BOOLEAN :
          LET e == IF SerRaises # "none" THEN SerRaises
                   ELSE IF io_ok THEN "none" ELSE "io_error"
          IN IF e = "none"
             THEN /\ Set(t, [pc |-> "s_flush", sent |-> Append(client[t].sent, client[t].frame)])
                  /\ lock' = t
             ELSE /\ SendRaised(t, e)
                  /\ lock' = 0
    /\ UNCHANGED <<scanVars, parseVars, encVars, baudrate, ser, ports, stop_evt, reader_thread, readers, rx_buf,
                   stream, inbound, delivered>>

\* _send: `self._ser.flush()` and the end of the with block, which releases the lock
SendFlush(t) ==
    /\ client[t].pc = "s_flush"
    /\ lock' = 0
    /\ IF SerRaises = "none" THEN Set(t, [pc |-> "s_sleep"]) ELSE SendRaised(t, SerRaises)
    /\ UNCHANGED <<scanVars, parseVars, encVars, baudrate, ser, ports, stop_evt, reader_thread, readers, rx_buf,
                   stream, inbound, delivered>>

\* _send: `time.sleep(self.write_delay_s)` is over and _send returns
SendSleep(t) ==
    /\ client[t].pc = "s_sleep"
    /\ AfterSend(t)
    /\ UNCHANGED <<scanVars, parseVars, encVars, baudrate, ser, ports, stop_evt, reader_thread, readers, rx_buf, lock,
                   stream, inbound, delivered>>

\* close: `if not self.is_open: return`, else the _send of the session-close frame
CloseCheck(t) ==
    /\ client[t].pc = "c_check"
    /\ IF is_open
       THEN Set(t, [pc |-> "s_check", frame |-> encode_session(FALSE)])
       ELSE Return(t, "noop")
    /\ UNCHANGED <<scanVars, parseVars, encVars, baudrate, ser, ports, stop_evt, reader_thread, readers, rx_buf, lock,
                   stream, inbound, delivered>>

\* close: `self._stop_evt.set()`
CloseStop(t) ==
    /\ client[t].pc = "c_stop"
    /\ stop_evt' = TRUE
    /\ Set(t, [pc |-> "c_join"])
    /\ UNCHANGED <<scanVars, parseVars, encVars, baudrate, ser, ports, reader_thread, readers, rx_buf, lock,
                   stream, inbound, delivered>>

ReaderDone(r) == readers[r].pc = "done"

\* close: `if self._reader_thread: self._reader_thread.join(timeout=1.0)`: the
\* join returns when the thread has ended, or when the timeout expires first
CloseJoin(t) ==
    /\ client[t].pc = "c_join"
    /\ \E timed_out \in BOOLEAN :
          /\ reader_thread # 0 /\ ~timed_out => ReaderDone(reader_thread)
          /\ reader_thread # 0 /\ timed_out => ~ReaderDone(reader_thread)
          /\ reader_thread = 0 => ~timed_out
          /\ Set(t, [pc |-> "c_close", join |-> IF timed_out THEN "timeout"
                                                ELSE IF reader_thread = 0 THEN "none"
                                                ELSE "joined"])
    /\ UNCHANGED <<scanVars, parseVars, encVars, baudrate, ser, ports, stop_evt, reader_thread, readers, rx_buf, lock,
                   stream, inbound, delivered>>

\* mutant: close() releases the port only while no writer holds the lock
CloseReleaseLocked(t) ==
    /\ client[t].pc = "c_close"
    /\ LockFree
    /\ IF ser # 0
       THEN /\ ports' = [ports EXCEPT ![ser] = FALSE]
            /\ Set(t, [pc |-> "c_none"])
       ELSE /\ Return(t, "ok")
            /\ UNCHANGED ports
    /\ UNCHANGED <<scanVars, parseVars, encVars, baudrate, ser, stop_evt, reader_thread, readers, rx_buf, lock,
                   stream, inbound, delivered>>

\* close: `if self._ser:` `self._ser.close()`
CloseRelease(t) ==
    /\ client[t].pc = "c_close"
    /\ IF ser # 0
       THEN /\ ports' = [ports EXCEPT ![ser] = FALSE]
            /\ Set(t, [pc |-> "c_none"])
       ELSE /\ Return(t, "ok")
            /\ UNCHANGED ports
    /\ UNCHANGED <<scanVars, parseVars, encVars, baudrate, ser, stop_evt, reader_thread, readers, rx_buf, lock,
                   stream, inbound, delivered>>

\* close: `finally: self._ser = None`
CloseNone(t) ==
    /\ client[t].pc = "c_none"
    /\ ser' = 0
    /\ Return(t, "ok")
    /\ UNCHANGED <<scanVars, parseVars, encVars, baudrate, ports, stop_evt, reader_thread, readers, rx_buf, lock,
                   stream, inbound, delivered>>

\* ------------------------------------------------------------------------
\* device.py: _reader_loop, run by each reader thread
\* ------------------------------------------------------------------------
Readers == 1..Len(readers)

\* every open() starts one reader thread, so there are at most MaxCalls of them
ReaderIds == 1..MaxCalls

Goto(r, place) == readers' = [readers EXCEPT ![r].pc = place]

\* `assert self._ser is not None`: a failed assertion ends the thread
ReaderStart(r) ==
    /\ r \in Readers
    /\ readers[r].pc = "start"
    /\ Goto(r, IF ser = 0 THEN "done" ELSE "top")
    /\ UNCHANGED <<scanVars, parseVars, encVars, baudrate, ser, ports, stop_evt, reader_thread, rx_buf, lock, client,
                   stream, inbound, delivered>>

\* `while not self._stop_evt.is_set():`
ReaderTop(r) ==
    /\ r \in Readers
    /\ readers[r].pc = "top"
    /\ Goto(r, IF stop_evt THEN "done" ELSE "read")
    /\ UNCHANGED <<scanVars, parseVars, encVars, baudrate, ser, ports, stop_evt, reader_thread, rx_buf, lock, client,
                   stream, inbound, delivered>>

\* `chunk = self._ser.read(1024)`, `if chunk: self._rx_buf.extend(chunk)`: the
\* read raises, times out with no byte, or returns the next bytes of the device
ReaderRead(r) ==
    /\ r \in Readers
    /\ readers[r].pc = "read"
    /\ \E n \in 0..Min(Len(inbound), ReadMax), io_ok \in BOOLEAN :
          IF SerRaises # "none" \/ ~io_ok
          THEN /\ Goto(r, "sleep")
               /\ UNCHANGED <<rx_buf, inbound>>
          ELSE /\ rx_buf' = rx_buf \o SubSeq(inbound, 1, n)
               /\ inbound' = SubSeq(inbound, n + 1, Len(inbound))
               /\ Goto(r, IF n = 0 THEN "top" ELSE "drain")
    /\ UNCHANGED <<scanVars, parseVars, encVars, baudrate, ser, ports, stop_evt, reader_thread, lock, client,
                   stream, delivered>>

\* one turn of the drain loop: `res = try_extract_frame(self._rx_buf)`,
\* `if res is None: break`, `del self._rx_buf[:consumed]`,
\* `updates = parse_payload(...)`, `if updates: self.callback(updates)`, up to
\* the entry of the callback
ReaderDrain(r) ==
    /\ r \in Readers
    /\ readers[r].pc = "drain"
    /\ LET found == try_extract_frame(rx_buf)
           updates == parse_payload(found.frame.type_id, found.frame.payload)
       IN IF ~found.found
          THEN Goto(r, "top") /\ UNCHANGED <<rx_buf, delivered>>
          ELSE /\ rx_buf' = DelPrefix(rx_buf, found.consumed)
               /\ IF updates.raised
                  THEN Goto(r, "sleep") /\ UNCHANGED delivered
                  ELSE IF NonEmpty(updates.out)
                  THEN Goto(r, "callback") /\ delivered' = Append(delivered, updates.out)
                  ELSE Goto(r, "drain") /\ UNCHANGED delivered
    /\ UNCHANGED <<scanVars, parseVars, encVars, baudrate, ser, ports, stop_evt, reader_thread, lock, client,
                   stream, inbound>>

\* the callback returns, and the drain loop goes on
ReaderCallback(r) ==
    /\ r \in Readers
    /\ readers[r].pc = "callback"
    /\ Goto(r, "drain")
    /\ UNCHANGED <<scanVars, parseVars, encVars, baudrate, ser, ports, stop_evt, reader_thread, rx_buf, lock, client,
                   stream, inbound, delivered>>

\* mutant: an exception in the loop body ends the reader thread
ReaderSleepExits(r) ==
    /\ r \in Readers
    /\ readers[r].pc = "sleep"
    /\ Goto(r, "done")
    /\ UNCHANGED <<scanVars, parseVars, encVars, baudrate, ser, ports, stop_evt, reader_thread, rx_buf, lock, client,
                   stream, inbound, delivered>>

\* `except Exception: time.sleep(0.1)`, then the top of the loop
ReaderSleep(r) ==
    /\ r \in Readers
    /\ readers[r].pc = "sleep"
    /\ Goto(r, "top")
    /\ UNCHANGED <<scanVars, parseVars, encVars, baudrate, ser, ports, stop_evt, reader_thread, rx_buf, lock, client,
                   stream, inbound, delivered>>

ReaderStep(r) ==
    \/ ReaderStart(r) \/ ReaderTop(r) \/ ReaderRead(r) \/ ReaderDrain(r)
    \/ ReaderCallback(r) \/ ReaderSleep(r)

\* the steps a reader thread takes while the device sends nothing
ReaderQuietStep(r) ==
    \/ ReaderStart(r) \/ ReaderTop(r) \/ ReaderRead(r) \/ ReaderSleep(r)

ClientStep(t) ==
    \/ StartCall(t)
    \/ OpenCheck(t) \/ OpenSerial(t) \/ OpenClear(t) \/ OpenThread(t)
    \/ SendCheck(t) \/ SendWrite(t) \/ SendFlush(t) \/ SendSleep(t)
    \/ CloseCheck(t) \/ CloseStop(t) \/ CloseJoin(t) \/ CloseRelease(t) \/ CloseNone(t)

\* ------------------------------------------------------------------------
\* Spec: one client thread calling open(), close() and commands on a session
\* whose device answers with a model name
\* ------------------------------------------------------------------------
Baudrates == {19200, 115200, 4800}

\* the device's reply to GET 222: a model name of one byte
ModelNameReply == encode_frame(HEADER_INPUT, CMD_GET, MODEL_NAME, <<1>>)

Init ==
    /\ \E rate \in Baudrates : Constructed(rate, ModelNameReply)
    /\ ScanIdle
    /\ ParseIdle
    /\ EncodeIdle

Next ==
    \/ \E t \in {FirstClient} : ClientStep(t)
    \/ \E r \in ReaderIds : ReaderStep(r)

Spec == Init /\ [][Next]_vars

\* Spec with every reader thread scheduled again and again: each read returns
\* within its timeout, each callback and each sleep returns
ReadersProgress == \A r \in ReaderIds : WF_vars(ReaderStep(r))

SpecShutdown == Init /\ [][Next]_vars /\ ReadersProgress

\* ------------------------------------------------------------------------
\* SpecThreads: two client threads calling open(), close() and commands
\* concurrently on a session whose device sends nothing
\* ------------------------------------------------------------------------
InitThreads ==
    /\ Constructed(115200, <<>>)
    /\ ScanIdle
    /\ ParseIdle
    /\ EncodeIdle

NextThreads ==
    \/ \E t \in Clients : ClientStep(t)
    \/ \E r \in ReaderIds : ReaderQuietStep(r)

SpecThreads == InitThreads /\ [][NextThreads]_vars

\* ------------------------------------------------------------------------
\* SpecReader: the reader loop of an opened session, for the byte streams a
\* device can send, handed out by the transport in chunks of any size
\* ------------------------------------------------------------------------
\* the pieces of a stream: a model name frame with an empty payload, one with a
\* payload, three frames of known registers too short to decode (input
\* voltage, the output block, output closed), a frame of an unknown register,
\* and two garbage bytes, one of them header-valued
StreamItems ==
    { encode_frame(HEADER_INPUT, CMD_GET, MODEL_NAME, <<>>),
      ModelNameReply,
      encode_frame(HEADER_INPUT, CMD_GET, 192, <<>>),
      encode_frame(HEADER_INPUT, CMD_GET, 195, <<1>>),
      encode_frame(HEADER_INPUT, CMD_GET, 219, <<>>),
      encode_frame(HEADER_INPUT, CMD_GET, 0, <<1>>),
      <<0>>,
      <<HEADER_INPUT>> }

RECURSIVE Streams(_)
Streams(n) ==
    IF n = 0 THEN {<<>>}
    ELSE Streams(n - 1) \cup {s \o item : s \in Streams(n - 1), item \in StreamItems}

RECURSIVE InitSequence(_)
InitSequence(k) == IF k = 0 THEN <<>> ELSE Append(InitSequence(k - 1), InitFrame(k))

\* the session after open() has returned on the first client thread
Opened ==
    /\ ser = 1
    /\ ports = <<TRUE>>
    /\ stop_evt = FALSE
    /\ reader_thread = 1
    /\ readers = <<NewReader>>
    /\ rx_buf = <<>>
    /\ lock = 0
    /\ client = [t \in Clients |->
                    IF t = FirstClient
                    THEN [pc |-> "idle", op |-> "open", k |-> 0, frame |-> <<>>,
                          sent |-> InitSequence(InitCount), err |-> "ok", started |-> 1,
                          join |-> "none", calls |-> 1]
                    ELSE IdleClient]
    /\ delivered = <<>>

InitReader ==
    /\ baudrate = 115200
    /\ Opened
    /\ \E s \in Streams(MaxItems) : stream = s /\ inbound = s
    /\ ScanIdle
    /\ ParseIdle
    /\ EncodeIdle

NextReader == \E r \in ReaderIds : ReaderStep(r)

SpecReader == InitReader /\ [][NextReader]_vars

\* ------------------------------------------------------------------------
\* The scanner on its own: one valid frame between a prefix and trailing bytes
\* ------------------------------------------------------------------------
ScanHeaders == {HEADER_INPUT, HEADER_OUTPUT}
ScanCmds == {CMD_GET}
ScanTypes == {0, 1}

InitScan ==
    /\ \E pre \in SeqsUpTo(Alphabet, MaxFree) :
       \E payload \in SeqsUpTo(Alphabet, MaxFree - Len(pre)) :
       \E post \in SeqsUpTo(Alphabet, MaxFree - Len(pre) - Len(payload)) :
       \E header \in ScanHeaders, cmd \in ScanCmds, type_id \in ScanTypes :
          /\ call = [pre |-> pre, header |-> header, cmd |-> cmd, type_id |-> type_id,
                     payload |-> payload, post |-> post]
          /\ buffer = pre \o encode_frame(header, cmd, type_id, payload) \o post
    /\ res = None
    /\ phase = "input"
    /\ ParseIdle
    /\ EncodeIdle
    /\ Constructed(115200, <<>>)

\* res = try_extract_frame(buf)
Extract ==
    /\ phase = "input"
    /\ res' = try_extract_frame(buffer)
    /\ phase' = "scanned"
    /\ UNCHANGED <<call, buffer, parseVars, encVars, sessVars>>

\* frame, consumed = res; del buf[:consumed]
Consume ==
    /\ phase = "scanned"
    /\ res.found
    /\ buffer' = DelPrefix(buffer, res.consumed)
    /\ phase' = "consumed"
    /\ UNCHANGED <<call, res, parseVars, encVars, sessVars>>

NextScan == Extract \/ Consume

SpecScan == InitScan /\ [][NextScan]_vars

\* ------------------------------------------------------------------------
\* The decoder on its own
\* ------------------------------------------------------------------------
ParseTypes == Byte
FillBytes == {0, 1}

InitParse ==
    /\ \E type_id \in ParseTypes, n \in 0..MaxParseLen, b \in FillBytes :
          p_in = [type_id |-> type_id, payload |-> [k \in 1..n |-> b]]
    /\ p_out = Pending
    /\ ScanIdle
    /\ EncodeIdle
    /\ Constructed(115200, <<>>)

\* out = parse_payload(type_id, payload)
Parse ==
    /\ ~p_out.returned
    /\ p_out' = Returned(parse_payload(p_in.type_id, p_in.payload))
    /\ UNCHANGED <<p_in, scanVars, encVars, sessVars>>

NextParse == Parse

SpecParse == InitParse /\ [][NextParse]_vars

\* ------------------------------------------------------------------------
\* The encoders on their own
\* ------------------------------------------------------------------------
\* integer type_ids: every byte value, and integers below and above a byte
EncTypes == Byte \cup {0 - 1, 256, 300}
EncValues == {0 - 1, 0, 7, 255, 256, 300}
EncCmds == {CMD_GET, CMD_SET}

\* payloads: the short ones over three byte values, and the longest a frame
\* can carry and one byte more
EncPayloads ==
    SeqsUpTo({0, 1, 255}, MaxEncLen)
        \cup {[k \in 1..n |-> b] : n \in {255, 256}, b \in {0, 255}}

InitEncode ==
    /\ \/ \E header \in ScanHeaders, cmd \in EncCmds, type_id \in EncTypes, payload \in EncPayloads :
             e_in = [fn |-> "encode_frame", header |-> header, cmd |-> cmd,
                     type_id |-> type_id, payload |-> payload]
       \/ \E type_id \in EncTypes :
             e_in = [fn |-> "encode_get", type_id |-> type_id]
       \/ \E type_id \in EncTypes, value \in EncValues :
             e_in = [fn |-> "encode_set_byte", type_id |-> type_id, value |-> value]
    /\ e_out = Pending
    /\ ScanIdle
    /\ ParseIdle
    /\ Constructed(115200, <<>>)

\* the arguments with which the call reaches encode_frame
FrameArgs(c) ==
    CASE c.fn = "encode_frame" -> c
      [] c.fn = "encode_get" ->
            [header |-> HEADER_OUTPUT, cmd |-> CMD_GET, type_id |-> c.type_id, payload |-> <<0>>]
      [] c.fn = "encode_set_byte" ->
            [header |-> HEADER_OUTPUT, cmd |-> CMD_SET, type_id |-> c.type_id,
             payload |-> <<c.value % 256>>]

\* `bytes([header, cmd, type_id, c4])` raises ValueError
EncodeRaises(c) ==
    ~({FrameArgs(c).header, FrameArgs(c).cmd, FrameArgs(c).type_id, Len(FrameArgs(c).payload)}
          \subseteq Byte)

EncodeCall(c) ==
    CASE c.fn = "encode_frame" -> encode_frame(c.header, c.cmd, c.type_id, c.payload)
      [] c.fn = "encode_get" -> encode_get(c.type_id)
      [] c.fn = "encode_set_byte" -> encode_set_byte(c.type_id, c.value)

\* the call returns bytes or raises
Encode ==
    /\ ~e_out.returned
    /\ e_out' = Returned(IF EncodeRaises(e_in) THEN Raised ELSE Ok(EncodeCall(e_in)))
    /\ UNCHANGED <<e_in, scanVars, parseVars, sessVars>>

NextEncode == Encode

SpecEncode == InitEncode /\ [][NextEncode]_vars

\* ------------------------------------------------------------------------
\* Claims about the scanner (SpecScan)
\* ------------------------------------------------------------------------
TheFrame == Frame(call.header, call.cmd, call.type_id, call.payload)
FrameLen == 5 + Len(call.payload)
Scanned == phase \in {"scanned", "consumed"}

\* C1: scanning a buffer that holds exactly encode_frame(header, command,
\* type_id, payload) returns the frame with all four fields equal to the
\* inputs and consumed = 5 + len(payload), for every payload, the empty
\* payload included.
C1_RoundTrip ==
    (Scanned /\ call.pre = <<>> /\ call.post = <<>>) => res = Found(TheFrame, FrameLen)

\* a frame-shaped byte run (header, command, type, length, payload of that
\* length, checksum byte) whose checksum byte does not match
CorruptedFrame(s) ==
    /\ Len(s) >= 5
    /\ IsHeader(s[1])
    /\ s[4] = Len(s) - 5
    /\ s[Len(s)] # checksum(s[3], SubSeq(s, 5, Len(s) - 1))

NoHeaderIn(s, from) == \A k \in from..Len(s) : ~IsHeader(s[k])

\* C2 as stated: for every corrupted frame immediately followed by a valid
\* frame, the scan returns the valid frame, with consumed equal to the length
\* of both.
C2_ResyncAlways ==
    (Scanned /\ CorruptedFrame(call.pre) /\ call.post = <<>>)
        => res = Found(TheFrame, Len(call.pre) + FrameLen)

\* C2 as amended: when no byte of the corrupted frame after its header byte is
\* a header value, the scan returns the valid frame with consumed equal to
\* the length of both if the valid frame's payload is not empty, and returns
\* none if it is empty (a 5-byte frame that ends the buffer is never tried).
C2_ResyncNoInnerHeader ==
    (Scanned /\ CorruptedFrame(call.pre) /\ call.post = <<>> /\ NoHeaderIn(call.pre, 2))
        => IF call.payload # <<>>
           THEN res = Found(TheFrame, Len(call.pre) + FrameLen)
           ELSE res = None

C2_Witness ==
    /\ Scanned /\ CorruptedFrame(call.pre) /\ call.post = <<>> /\ NoHeaderIn(call.pre, 2)
    /\ call.payload # <<>>
    /\ res.found /\ res.consumed = Len(call.pre) + FrameLen

\* C3 as stated: for every garbage prefix G and valid frame F, scanning
\* G + F + trailing returns F with consumed = len(G) + len(F), and deleting
\* the consumed bytes leaves the trailing bytes.
C3_NoiseAlways ==
    /\ Scanned => res = Found(TheFrame, Len(call.pre) + FrameLen)
    /\ phase = "consumed" => buffer = call.post

\* C3 as amended: when no garbage byte is a header value, the scan returns F
\* with consumed = len(G) + len(F) and deleting the consumed bytes leaves the
\* trailing bytes, if F has a payload or a trailing byte follows it; for an
\* empty-payload F that ends the buffer the scan returns none.
C3_NoiseNoHeader ==
    (Scanned /\ NoHeaderIn(call.pre, 1))
        => IF call.payload # <<>> \/ call.post # <<>>
           THEN /\ res = Found(TheFrame, Len(call.pre) + FrameLen)
                /\ phase = "consumed" => buffer = call.post
           ELSE res = None

C3_Witness ==
    /\ phase = "consumed" /\ NoHeaderIn(call.pre, 1)
    /\ Len(call.pre) >= 2 /\ call.post # <<>>
    /\ res.found /\ buffer = call.post

\* ------------------------------------------------------------------------
\* Claims about the decoder (SpecParse)
\* ------------------------------------------------------------------------
\* the keys the claim expects of an ALL payload of n bytes
ExpectedAllKeys(n) ==
    IF n < 95 THEN {"rawAll"}
    ELSE CoreKeys \cup (IF n >= 99 THEN FlagKeys ELSE {})
                  \cup (IF n >= 110 THEN StateKeys ELSE {})
                  \cup (IF n >= 119 THEN LimitKeys ELSE {})

\* C5: for every ALL payload length, parse_payload returns without raising,
\* with only rawAll below 95 bytes and, from 95 bytes on, the 24 core floats
\* plus exactly the optional sections that lie fully inside the payload.
C5_AllTolerant ==
    (p_out.returned /\ p_in.type_id = ALL)
        => /\ ~p_out.result.raised
           /\ DOMAIN p_out.result.out = ExpectedAllKeys(Len(p_in.payload))

\* ------------------------------------------------------------------------
\* Claims about the reader loop (SpecReader)
\* ------------------------------------------------------------------------
\* the bytes of a whole frame (header to checksum byte) are in buf from offset i
CompleteAt(buf, i) == i + 3 < Len(buf) /\ i + 4 + B(buf, i + 3) < Len(buf)

ChecksumAt(buf, i) ==
    checksum(B(buf, i + 2), Slice(buf, i + 4, i + 4 + B(buf, i + 3)))
        = B(buf, i + 4 + B(buf, i + 3))

HeaderAt(buf, i) == IsHeader(B(buf, i))
RejectedAt(buf, i) == HeaderAt(buf, i) /\ CompleteAt(buf, i) /\ ~ChecksumAt(buf, i)
ValidAt(buf, i) == HeaderAt(buf, i) /\ CompleteAt(buf, i) /\ ChecksumAt(buf, i)

\* offset i is the first header-valued offset that no checksum rejects, and
\* its declared payload plus checksum byte are not all in buf
IncompleteFirstAt(buf, i) ==
    /\ HeaderAt(buf, i)
    /\ ~CompleteAt(buf, i)
    /\ \A j \in 0..(i - 1) : HeaderAt(buf, j) => RejectedAt(buf, j)

Inconclusive(buf) == \E i \in 0..(Len(buf) - 1) : IncompleteFirstAt(buf, i)

\* C4: when the first header-valued offset that is not rejected by checksum is
\* incomplete, try_extract_frame returns none, also when a complete valid
\* frame starts at a later offset, and the reader's drain step then removes no
\* byte from the receive buffer and leaves the drain loop.
C4_InconclusiveKeepsBuffer ==
    [][\A r \in ReaderIds :
          (r \in Readers /\ readers[r].pc = "drain" /\ Inconclusive(rx_buf))
              => /\ try_extract_frame(rx_buf) = None
                 /\ rx_buf' = rx_buf
                 /\ readers'[r].pc = "top"]_vars

\* an inconclusive scan has left in the buffer a complete valid frame that
\* starts behind the incomplete candidate
C4_Witness ==
    /\ readers[1].pc = "top"
    /\ \E i \in 0..(Len(rx_buf) - 1) :
          /\ IncompleteFirstAt(rx_buf, i)
          /\ \E j \in (i + 1)..(Len(rx_buf) - 1) :
                ValidAt(rx_buf, j) /\ try_extract_frame(DelPrefix(rx_buf, j)).found

\* s is a concatenation of valid frames
RECURSIVE IsFrameStream(_)
IsFrameStream(s) ==
    \/ s = <<>>
    \/ /\ ValidAt(s, 0)
       /\ IsFrameStream(DelPrefix(s, 5 + B(s, 3)))

\* the records of the frames of a frame stream s that lie wholly in its first
\* n bytes, in stream order, leaving out the frames that decode to no record
RECURSIVE RecordsOf(_, _)
RecordsOf(s, n) ==
    IF s = <<>> \/ 5 + B(s, 3) > n THEN <<>>
    ELSE LET size == 5 + B(s, 3)
             d == parse_payload(B(s, 2), Slice(s, 4, size - 1))
             rest == RecordsOf(DelPrefix(s, size), n - size)
         IN IF ~d.raised /\ NonEmpty(d.out) THEN <<d.out>> \o rest ELSE rest

IsPrefix(a, b) == Len(a) <= Len(b) /\ a = SubSeq(b, 1, Len(a))

Received == Len(stream) - Len(inbound)

\* C8: for a stream that is a concatenation of valid frames, split into read
\* chunks in any way, the callback gets every non-empty record exactly once
\* and in stream order, and whenever the reader is back from draining, every
\* frame received in full has been delivered.
C8_InOrderLossless ==
    IsFrameStream(stream)
        => /\ IsPrefix(delivered, RecordsOf(stream, Len(stream)))
           /\ readers[1].pc \in {"top", "read"} => delivered = RecordsOf(stream, Received)

\* ------------------------------------------------------------------------
\* Claims about the session (Spec, SpecThreads)
\* ------------------------------------------------------------------------
\* C6: a write operation holds the write lock from the write through the flush
\* and the whole pacing delay, so no other thread is between its write and its
\* flush while a thread is in its pacing delay.
C6_PacingUnderLock ==
    \A t \in Clients :
        /\ client[t].pc \in {"s_flush", "s_sleep"} => lock = t
        /\ client[t].pc = "s_sleep" => \A u \in Clients \ {t} : client[u].pc # "s_flush"

\* the reader threads that are inside the loop of _reader_loop
Running == {r \in Readers : readers[r].pc \in {"top", "read", "drain", "callback", "sleep"}}

\* C7: under every interleaving of open() and close() calls at most one reader
\* loop is running.
C7_SingleReader == Cardinality(Running) <= 1

NoLifecycleCall == \A u \in Clients : client[u].op \in {"open", "close"} => client[u].pc = "idle"

OutFrame(cmd, type_id, b) == <<HEADER_OUTPUT, cmd, type_id, 1, b, (type_id + 1 + b) % 256>>

ExpectedBaudByte(rate) ==
    CASE rate = 9600 -> 1
      [] rate = 19200 -> 2
      [] rate = 38400 -> 3
      [] rate = 57600 -> 4
      [] OTHER -> 5

ExpectedInit(rate) ==
    << OutFrame(CMD_SESSION, 0, 1), OutFrame(CMD_BAUD, 0, ExpectedBaudByte(rate)),
       OutFrame(CMD_GET, 222, 0), OutFrame(CMD_GET, 223, 0), OutFrame(CMD_GET, 224, 0),
       OutFrame(CMD_GET, 255, 0) >>

\* C10: an open() that goes past its already-open check writes the frames of
\* the init sequence in order and nothing else, writes none of them before it
\* has started its reader thread, and has written all six when it returns
\* without an error.
C10_InitSequence ==
    \A t \in Clients :
        client[t].op = "open"
            => /\ IsPrefix(client[t].sent, ExpectedInit(baudrate))
               /\ client[t].sent # <<>> => client[t].started \in Readers
               /\ (client[t].pc = "idle" /\ client[t].err = "ok")
                      => client[t].sent = ExpectedInit(baudrate)

\* an open() with a baud rate that is not in the table has returned
C10_Witness ==
    \E t \in Clients :
        /\ client[t].op = "open" /\ client[t].pc = "idle" /\ client[t].err = "ok"
        /\ Len(client[t].sent) = 6
        /\ baudrate = 4800

\* C11: open() on an already open session returns at its is_open check: it
\* makes no second serial.Serial, starts no second reader thread, does not
\* clear the stop event, writes no frame, and leaves _ser and the receive
\* buffer as they are.
C11_OpenNoop ==
    [][\A t \in Clients :
          (/\ client[t].op = "open" /\ client[t].pc = "o_check" /\ client'[t] # client[t]
           /\ is_open)
              => /\ client'[t].pc = "idle"
                 /\ client'[t].err = "noop"
                 /\ client'[t].sent = <<>>
                 /\ client'[t].started = 0
                 /\ UNCHANGED <<ser, ports, stop_evt, reader_thread, readers, rx_buf, lock>>]_vars

\* a second open() has returned on a session that is still open, with one
\* port and one reader thread made
C11_Witness ==
    \E t \in Clients :
        /\ client[t].op = "open" /\ client[t].pc = "idle" /\ client[t].err = "noop"
        /\ client[t].calls >= 2
        /\ is_open /\ Len(ports) = 1 /\ Len(readers) = 1

AllPortsClosed == \A p \in 1..Len(ports) : ~ports[p]

\* C12: a close() that has returned has raised nothing, and has left the
\* session Closed (_ser is None) with the serial port closed, also when the
\* write of the session-close frame failed and when the join timed out.
C12_BestEffortClose ==
    \A t \in Clients :
        (client[t].op = "close" /\ client[t].pc = "idle")
            => /\ client[t].err \in {"ok", "noop"}
               /\ ser = 0
               /\ ~is_open
               /\ AllPortsClosed

\* a close() of an open session has returned after its write of the
\* session-close frame failed and its join timed out
C12_Witness ==
    \E t \in Clients :
        /\ client[t].op = "close" /\ client[t].pc = "idle" /\ client[t].err = "ok"
        /\ client[t].sent = <<>>
        /\ client[t].join = "timeout"
        /\ ports # <<>> /\ ser = 0 /\ AllPortsClosed

\* C13: a step of a reader thread at its read, whether the read fails or not,
\* stays in the loop; after a failure the thread backs off and goes to the top
\* of the loop, from where it reads again unless the stop event is set; and a
\* reader thread ends only in a state where the stop event is set.
C13_ReaderSurvives ==
    [][\A r \in ReaderIds :
          r \in Readers
              => /\ readers[r].pc = "read" => readers'[r].pc \in {"read", "sleep", "top", "drain"}
                 /\ readers[r].pc = "sleep" => readers'[r].pc \in {"sleep", "top"}
                 /\ (readers[r].pc = "top" /\ ~stop_evt) => readers'[r].pc \in {"top", "read"}
                 /\ (readers[r].pc # "done" /\ readers'[r].pc = "done") => stop_evt]_vars

\* a read on the open port has failed and the reader thread is backing off,
\* with the stop event not set
C13_Witness ==
    \E r \in Readers :
        /\ readers[r].pc = "sleep"
        /\ ~stop_evt /\ is_open
        /\ rx_buf = <<>> /\ delivered = <<>>

\* ------------------------------------------------------------------------
\* Claims about the encoders (SpecEncode)
\* ------------------------------------------------------------------------
\* C14: for a type_id in 0..255 and a payload of 0..255 bytes encode_frame
\* returns header, command, type_id, len(payload), the payload, and the
\* checksum (type_id + len(payload) + sum(payload)) mod 256: 5 + len(payload)
\* bytes.
C14_FrameLayout ==
    (/\ e_out.returned /\ e_in.fn = "encode_frame"
     /\ e_in.type_id \in 0..255 /\ Len(e_in.payload) \in 0..255)
        => /\ ~e_out.result.raised
           /\ Len(e_out.result.out) = 5 + Len(e_in.payload)
           /\ e_out.result.out =
                 <<e_in.header, e_in.cmd, e_in.type_id, Len(e_in.payload)>>
                     \o e_in.payload
                     \o <<(e_in.type_id + Len(e_in.payload) + SumSeq(e_in.payload)) % 256>>

\* encode_frame has returned the frame of a 255-byte payload whose checksum
\* sum wraps around
C14_Witness ==
    /\ e_out.returned /\ e_in.fn = "encode_frame"
    /\ e_in.type_id = 255 /\ Len(e_in.payload) = 255 /\ e_in.payload[1] = 255
    /\ ~e_out.result.raised
    /\ Len(e_out.result.out) = 260

\* C15: for every integer type_id and value, encode_get, encode_set_byte and
\* encode_frame return a frame whose type_id byte and value byte are the
\* inputs reduced to one byte; they reject no integer input.
C15_NoErrorConditions ==
    (e_out.returned /\ Len(FrameArgs(e_in).payload) \in 0..255)
        => /\ ~e_out.result.raised
           /\ e_out.result.out[3] = e_in.type_id % 256
           /\ e_in.fn = "encode_set_byte" => e_out.result.out[5] = e_in.value % 256

\* ------------------------------------------------------------------------
\* Claims about the decoder, continued (SpecParse)
\* ------------------------------------------------------------------------
KnownTypes == {192, 195, 196} \cup (217..224) \cup {226, 227, 255}

\* C16: for a type_id outside the known registers and any payload, the empty
\* one included, parse_payload raises nothing and returns a record without
\* keys, which the reader's `if updates:` takes as nothing to deliver.
C16_UnknownIgnored ==
    (p_out.returned /\ p_in.type_id \notin KnownTypes)
        => /\ ~p_out.result.raised
           /\ DOMAIN p_out.result.out = {}
           /\ ~NonEmpty(p_out.result.out)

\* parse_payload has returned for register 225, which lies between two known
\* registers, with an empty payload
C16_Witness ==
    /\ p_out.returned
    /\ p_in.type_id = 225 /\ p_in.payload = <<>>
    /\ ~p_out.result.raised

\* ------------------------------------------------------------------------
\* Claims about the scanner, continued (SpecScan)
\* ------------------------------------------------------------------------
\* the offsets with at least 6 bytes left that are header-valued and that no
\* checksum rejects
RefStarts(buf) == {i \in 0..(Len(buf) - 6) : HeaderAt(buf, i) /\ ~RejectedAt(buf, i)}

\* the reference scan: the first such offset decides; none when its payload
\* and checksum byte are not all there, else the frame at that offset
Reference(buf) ==
    IF RefStarts(buf) = {} THEN None
    ELSE LET i == CHOOSE x \in RefStarts(buf) : \A y \in RefStarts(buf) : x <= y
             c4 == B(buf, i + 3)
         IN IF ~CompleteAt(buf, i) THEN None
            ELSE Found(Frame(B(buf, i), B(buf, i + 1), B(buf, i + 2), Slice(buf, i + 4, i + 4 + c4)),
                       i + 5 + c4)

\* C17: on every buffer try_extract_frame returns what the reference scan
\* returns.
C17_EarliestFrame == phase = "scanned" => res = Reference(buffer)

\* the frame returned starts inside the span of a candidate that the
\* checksum rejected
C17_Witness ==
    /\ phase = "scanned"
    /\ res.found
    /\ LET start == res.consumed - 5 - Len(res.frame.payload)
       IN \E j \in 0..(start - 1) :
             RejectedAt(buffer, j) /\ start < j + 5 + B(buffer, j + 3)

\* ------------------------------------------------------------------------
\* Claims about the reader loop, continued (SpecReader, Spec)
\* ------------------------------------------------------------------------
\* C18: whenever the reader thread is at the top of its loop or at its read,
\* the receive buffer holds no extractable frame.
C18_DrainToExhaustion ==
    \A r \in Readers :
        readers[r].pc \in {"top", "read"} => ~try_extract_frame(rx_buf).found

\* C19: once close() has set the stop event, a reader thread whose reads and
\* callbacks return comes to the test at the top of its loop and ends.
C19_CooperativeShutdown ==
    \A r \in ReaderIds :
        (r \in Readers /\ stop_evt /\ readers[r].pc # "done")
            ~> (r \in Readers /\ readers[r].pc = "done")

\* ------------------------------------------------------------------------
\* Claims about the session, continued (SpecThreads)
\* ------------------------------------------------------------------------
\* the client threads that are between their write and the end of their flush
Writing == {t \in Clients : client[t].pc = "s_flush"}

\* C20: at most one thread is between its write and the end of its flush, and
\* it holds the lock; a reader thread that has not ended can take its next
\* step whoever holds the lock, and no step of a reader thread changes the
\* lock.
C20_WriteMutex ==
    /\ [](/\ Cardinality(Writing) <= 1
          /\ \A t \in Writing : lock = t
          /\ \A r \in ReaderIds :
                (r \in Readers /\ readers[r].pc # "done") => ENABLED ReaderStep(r))
    /\ [][(\E r \in Readers : readers'[r] # readers[r]) => lock' = lock]_vars

\* on an open session one command holds the lock between its write and its
\* flush while the command of another thread waits for the lock, and the
\* reader thread is in its loop
C20_Witness ==
    /\ is_open
    /\ \E t \in Clients, u \in Clients :
          /\ t # u
          /\ client[t].op = "cmd" /\ client[t].pc = "s_flush" /\ lock = t
          /\ client[u].op = "cmd" /\ client[u].pc = "s_write"
    /\ \E r \in Readers : readers[r].pc = "read"

\* ------------------------------------------------------------------------
\* Claims about the scanner and the drain loop (SpecScan, SpecReader)
\* ------------------------------------------------------------------------
\* C21: every frame try_extract_frame returns comes with
\* 5 <= consumed <= len(buffer), and the `del buffer[:consumed]` that follows
\* leaves the buffer shorter by consumed bytes, so a drain loop over a finite
\* buffer ends.
C21_DrainTerminates ==
    /\ []((phase = "scanned" /\ res.found)
             => (5 <= res.consumed /\ res.consumed <= Len(buffer)))
    /\ [][(phase = "scanned" /\ phase' = "consumed")
             => (Len(buffer') = Len(buffer) - res.consumed /\ Len(buffer') < Len(buffer))]_vars

\* a frame with an empty payload was returned from the front of a longer
\* buffer with the least consumed there is, and bytes are left after the del
C21_Witness ==
    /\ phase = "consumed"
    /\ res.found /\ res.consumed = 5
    /\ buffer # <<>>

\* the least payload length the decode rule of a known register reads
Needs(type_id) ==
    CASE type_id \in {192, 196, 217, 218, 226, 227} -> 4
      [] type_id = 195 -> 12
      [] type_id \in {219, 220, 221} -> 1
      [] OTHER -> 0

Malformed(frame) == Len(frame.payload) < Needs(frame.type_id)

\* C22: when the drain step finds a checksum-valid frame of a known register
\* whose payload is shorter than its decode rule needs, the callback is not
\* called, the frame's bytes (and the bytes skipped before it) leave the
\* receive buffer, and the reader thread stays in its loop, backing off.
C22_MalformedDropped ==
    [][\A r \in ReaderIds :
          (/\ r \in Readers /\ readers[r].pc = "drain"
           /\ try_extract_frame(rx_buf).found
           /\ Malformed(try_extract_frame(rx_buf).frame))
              => /\ delivered' = delivered
                 /\ Len(rx_buf') = Len(rx_buf) - try_extract_frame(rx_buf).consumed
                 /\ rx_buf' = SubSeq(rx_buf, try_extract_frame(rx_buf).consumed + 1, Len(rx_buf))
                 /\ readers'[r].pc = "sleep"]_vars

\* the device has sent an output-block frame (register 195) with a one-byte
\* payload and nothing else; the reader has taken it out of the buffer, has
\* delivered nothing and is backing off
C22_Witness ==
    /\ stream = encode_frame(HEADER_INPUT, CMD_GET, 195, <<1>>) \o <<0>>
    /\ inbound = <<>>
    /\ rx_buf = <<0>>
    /\ delivered = <<>>
    /\ readers[1].pc = "sleep"

\* ------------------------------------------------------------------------
\* Claims about the session, continued (SpecThreads, Spec)
\* ------------------------------------------------------------------------
\* the errors of a write or flush on a transport that close() has released
ReleasedErrors == {"attribute_error", "port_not_open"}

\* C23: close() releases the port and clears _ser whoever holds the write
\* lock; a command that has passed the not-open check and then writes or
\* flushes on the released transport fails with an error that is not the
\* not-open error.
C23_CloseRacesWriter ==
    /\ [](\A t \in Clients :
             client[t].pc \in {"c_close", "c_none"} => ENABLED (CloseRelease(t) \/ CloseNone(t)))
    /\ [][\A t \in Clients :
             (/\ client[t].op = "cmd" /\ client[t].pc \in {"s_write", "s_flush"}
              /\ client'[t] # client[t]
              /\ SerRaises # "none")
                 => /\ client'[t].pc = "idle"
                    /\ client'[t].err \in ReleasedErrors
                    /\ client'[t].err # "not_open"]_vars

\* a command has failed on the released transport after the close() of the
\* other thread closed the port under it, between its write and its flush
C23_Witness ==
    \E t \in Clients, u \in Clients :
        /\ t # u
        /\ client[t].op = "cmd" /\ client[t].pc = "idle"
        /\ client[t].err \in ReleasedErrors
        /\ client[t].sent # <<>>
        /\ client[u].op = "close" /\ client[u].err \in {"running", "ok"}

\* C24: an open() that has ended with the error of a failed init write has
\* sent only a part of the init sequence and has left the session open: _ser
\* is the open port, the reader thread it started is the session's reader,
\* has not ended and has no stop event to see, so is_open holds and the next
\* open() returns at its already-open check.
C24_FailedOpenStaysOpen ==
    \A t \in Clients :
        (client[t].op = "open" /\ client[t].pc = "idle" /\ client[t].err = "io_error")
            => /\ Len(client[t].sent) < InitCount
               /\ ser # 0
               /\ is_open
               /\ ~stop_evt
               /\ client[t].started \in Readers
               /\ reader_thread = client[t].started
               /\ readers[client[t].started].pc # "done"

\* an open() has failed at the write of its third init frame, and its reader
\* thread is in its loop
C24_Witness ==
    \E t \in Clients :
        /\ client[t].op = "open" /\ client[t].pc = "idle" /\ client[t].err = "io_error"
        /\ Len(client[t].sent) = 2
        /\ is_open
        /\ client[t].started \in Readers
        /\ readers[client[t].started].pc = "read"

\* C25: no step of open(), close() or a command changes the receive buffer,
\* and a read of a reader thread appends its chunk behind the bytes that are
\* in the buffer, so bytes left over at close() stay at the front, ahead of
\* the first bytes of the next session.
C25_BufferSurvivesReopen ==
    [][/\ client' # client => rx_buf' = rx_buf
       /\ \A r \in ReaderIds :
             (r \in Readers /\ readers[r].pc = "read" /\ readers'[r] # readers[r])
                 => IsPrefix(rx_buf, rx_buf')]_vars

\* the session was closed with the first three bytes of a frame in the
\* buffer, its reader thread has ended, and a second open() has made a new
\* port and a new reader thread that has not read yet: the three bytes are
\* still there
C25_Witness ==
    /\ Len(ports) = 2 /\ is_open
    /\ Len(readers) = 2
    /\ readers[1].pc = "done" /\ readers[2].pc = "start"
    /\ rx_buf = SubSeq(ModelNameReply, 1, 3)
    /\ inbound = SubSeq(ModelNameReply, 4, Len(ModelNameReply))

====
